---- MODULE Spec2Model ----
(***************************************************************************)
(* Model of launch_ros/event_handlers/on_state_transition.py:              *)
(* OnStateTransition, the event handler that matches lifecycle             *)
(* StateTransition events.                                                 *)
(*                                                                         *)
(* Python objects are records carrying their class, their address (what    *)
(* id() returns) and, for classes that override __eq__, the key the        *)
(* override compares.  A handler is constructed once per slot; afterwards  *)
(* caller threads invoke matches(), describe() and matcher_description on  *)
(* it, each call taking a step to start and a step to return (Spec).  In   *)
(* SpecPair two handlers are registered with the launch service, which     *)
(* asks each of them about one event at a time.                            *)
(***************************************************************************)
EXTENDS Integers, Sequences, FiniteSets, TLC

\* ------------------------------------------------------------------ bounds
\* Number of caller threads that use a handler concurrently.
NumThreads == 2
\* Length of the entities list handed to the constructor.
MaxEntities == 2

Threads == 1..NumThreads
Handlers == {1, 2}

\* ----------------------------------------------------------------- objects
\* The singleton None; it is an object and id(None) is an address too.
None ==
  [name |-> "None", class |-> "NoneType", addr |-> 10, key |-> ""]
\* Two plain LifecycleNode actions (object.__eq__: identity).
NodeA ==
  [name |-> "NodeA", class |-> "LifecycleNode", addr |-> 171, key |-> ""]
\* Two distinct instances of a LifecycleNode subclass whose __eq__ compares
\* the node name; both are named "talker", so they compare equal.
NodeB ==
  [name |-> "NodeB", class |-> "NamedLifecycleNode", addr |-> 188, key |-> "talker"]
NodeC ==
  [name |-> "NodeC", class |-> "NamedLifecycleNode", addr |-> 4011, key |-> "talker"]
\* Something that is not a lifecycle node (a plain string naming a node).
NotANode ==
  [name |-> "NotANode", class |-> "str", addr |-> 205, key |-> ""]

\* Values a caller may pass as target_lifecycle_node.
TargetArgs == {None, NodeA, NodeC, NotANode}
\* Nodes that emit state transition events.
EmittingNodes == {NodeA, NodeB}

\* isinstance(o, (LifecycleNode, type(None))): subclasses are instances too.
IsLifecycleNodeOrNone(o) ==
  o.class \in {"LifecycleNode", "NamedLifecycleNode", "NoneType"}

\* Python `is`.
PyIs(a, b) == a.addr = b.addr

\* Python `a == b` on these objects: a.__eq__(b), then the reflected
\* b.__eq__(a), then identity.  NamedLifecycleNode.__eq__ answers only for
\* another NamedLifecycleNode; object.__eq__ answers only for identity.
PyEq(a, b) ==
  \/ PyIs(a, b)
  \/ /\ a.class = "NamedLifecycleNode"
     /\ b.class = "NamedLifecycleNode"
     /\ a.key = b.key

\* ------------------------------------------------------------------ events
\* The string criteria; the string "None" stands for Python's None.
NoneStr == "None"

\* (transition, start_state, goal_state) of the lifecycle transitions.
LifecycleTable ==
  { <<"configure", "unconfigured", "inactive">>,
    <<"activate", "inactive", "active">>,
    <<"deactivate", "active", "inactive">>,
    <<"cleanup", "inactive", "unconfigured">> }

StateTransitionEvents ==
  { [class |-> "StateTransition", action |-> n, transition |-> r[1],
     start_state |-> r[2], goal_state |-> r[3]] :
      n \in EmittingNodes, r \in LifecycleTable }

\* An event of another kind: it has none of the four attributes.
ProcessExited == [class |-> "ProcessExited"]

Events == StateTransitionEvents \cup {ProcessExited}

\* isinstance(event, StateTransition)
IsStateTransition(e) == e.class = "StateTransition"

\* ----------------------------------------------------------------- results
\* Outcome of a call: a returned boolean or a raised exception.
Returned(b) == [raised |-> FALSE, exc |-> "", value |-> b]
Raised(x) == [raised |-> TRUE, exc |-> x, value |-> FALSE]
NoVerdict == [raised |-> FALSE, exc |-> "not called", value |-> FALSE]

\* ------------------------------------------------------- constructor input
\* Caller-supplied matcher callables (total predicates over events).
CustomMatchers == {"any_event", "activate_only"}
NoMatcher == "None"

CustomApply(fn, e) ==
  CASE fn = "any_event" -> Returned(TRUE)
    [] fn = "activate_only" ->
         Returned(IsStateTransition(e) /\ e.transition = "activate")

\* The entities list: MaxEntities follow-up actions, in order.
EntityList == [i \in 1..MaxEntities |-> i]

CtorArgs ==
  [ entities : {EntityList},
    target_lifecycle_node : TargetArgs,
    transition : {NoneStr, "activate"},
    start_state : {NoneStr, "inactive"},
    goal_state : {NoneStr, "active"},
    matcher : CustomMatchers \cup {NoMatcher} ]

NoArgs ==
  [ entities |-> <<>>, target_lifecycle_node |-> None, transition |-> NoneStr,
    start_state |-> NoneStr, goal_state |-> NoneStr, matcher |-> NoMatcher ]

\* ---------------------------------------------------------------- closures
\* A matcher callable: a caller's function, or the lambda of __init__ with
\* the four constructor arguments it captures.
UnsetMatcher ==
  [ kind |-> "unset", fn |-> NoMatcher, target_lifecycle_node |-> None,
    transition |-> NoneStr, start_state |-> NoneStr, goal_state |-> NoneStr ]

CustomClosure(fn) == [UnsetMatcher EXCEPT !.kind = "custom", !.fn = fn]

DefaultClosure(a) ==
  [ kind |-> "default", fn |-> NoMatcher,
    target_lifecycle_node |-> a.target_lifecycle_node,
    transition |-> a.transition,
    start_state |-> a.start_state,
    goal_state |-> a.goal_state ]

\* ------------------------------------------------------------------- state
VARIABLES
  handlers,   \* handlers[h]: the OnStateTransition object in slot h
  args,       \* args[h]: the arguments its constructor was called with
  frames,     \* frames[t]: the call thread t is making on a handler
  pass        \* the launch service's last pass over all handlers

vars == <<handlers, args, frames, pass>>

\* The lambda with the isinstance test dropped when nothing is constrained.
DefaultMatcherNoKindTest(c, e) ==
  IF ~IsStateTransition(e)
  THEN Returned(/\ PyIs(c.target_lifecycle_node, None)
                /\ c.transition = NoneStr
                /\ c.start_state = NoneStr
                /\ c.goal_state = NoneStr)
  ELSE Returned(
         /\ (PyIs(c.target_lifecycle_node, None)
               \/ PyEq(e.action, c.target_lifecycle_node))
         /\ (c.transition = NoneStr \/ e.transition = c.transition)
         /\ (c.start_state = NoneStr \/ e.start_state = c.start_state)
         /\ (c.goal_state = NoneStr \/ e.goal_state = c.goal_state))

\* The lambda with the attributes read before the isinstance test.
DefaultMatcherEagerAttrs(c, e) ==
  IF ~({"action", "transition", "start_state", "goal_state"} \subseteq DOMAIN e)
  THEN Raised("AttributeError")
  ELSE Returned(
         /\ IsStateTransition(e)
         /\ (PyIs(c.target_lifecycle_node, None)
               \/ PyEq(e.action, c.target_lifecycle_node))
         /\ (c.transition = NoneStr \/ e.transition = c.transition)
         /\ (c.start_state = NoneStr \/ e.start_state = c.start_state)
         /\ (c.goal_state = NoneStr \/ e.goal_state = c.goal_state))

\* The lambda with a None transition compared instead of skipped.
DefaultMatcherNoWildcard(c, e) ==
  IF ~IsStateTransition(e)
  THEN Returned(FALSE)
  ELSE Returned(
         /\ (PyIs(c.target_lifecycle_node, None)
               \/ PyEq(e.action, c.target_lifecycle_node))
         /\ e.transition = c.transition
         /\ (c.start_state = NoneStr \/ e.start_state = c.start_state)
         /\ (c.goal_state = NoneStr \/ e.goal_state = c.goal_state))

\* The lambda comparing the target with `is` instead of `==`.
DefaultMatcherIdentity(c, e) ==
  IF ~IsStateTransition(e)
  THEN Returned(FALSE)
  ELSE Returned(
         /\ (PyIs(c.target_lifecycle_node, None)
               \/ PyIs(e.action, c.target_lifecycle_node))
         /\ (c.transition = NoneStr \/ e.transition = c.transition)
         /\ (c.start_state = NoneStr \/ e.start_state = c.start_state)
         /\ (c.goal_state = NoneStr \/ e.goal_state = c.goal_state))

\* The lambda evaluated on an event kept in a slot shared by all callers: a
\* caller that is in flight with another event overwrites the slot.
DefaultMatcherSharedSlot(c, e) ==
  LET others == { frames[t].event : t \in { u \in Threads :
                    /\ frames[u].op = "matches"
                    /\ frames[u].phase = "inflight"
                    /\ frames[u].event # e } }
      ev == IF others = {} THEN e ELSE CHOOSE x \in others : TRUE
  IN IF ~IsStateTransition(ev)
     THEN Returned(FALSE)
     ELSE Returned(
            /\ (PyIs(c.target_lifecycle_node, None)
                  \/ PyEq(ev.action, c.target_lifecycle_node))
            /\ (c.transition = NoneStr \/ ev.transition = c.transition)
            /\ (c.start_state = NoneStr \/ ev.start_state = c.start_state)
            /\ (c.goal_state = NoneStr \/ ev.goal_state = c.goal_state))

\* The lambda of __init__: `and` and `or` short-circuit, so an event that is
\* not a StateTransition is rejected before any attribute is read.
DefaultMatcher(c, e) ==
  IF ~IsStateTransition(e)
  THEN Returned(FALSE)
  ELSE Returned(
         /\ (PyIs(c.target_lifecycle_node, None)
               \/ PyEq(e.action, c.target_lifecycle_node))
         /\ (c.transition = NoneStr \/ e.transition = c.transition)
         /\ (c.start_state = NoneStr \/ e.start_state = c.start_state)
         /\ (c.goal_state = NoneStr \/ e.goal_state = c.goal_state))

\* Calling a matcher callable.
ApplyMatcher(c, e) ==
  IF c.kind = "custom" THEN CustomApply(c.fn, e) ELSE DefaultMatcher(c, e)

\* EventHandler.matches(event): calls the matcher given to its __init__.
Matches(obj, e) == ApplyMatcher(obj.matcher, e)

\* ------------------------------------------------------------- the handler
\* An object of class OnStateTransition: attrs holds the names of the
\* attributes assigned so far, status how its __init__ ended.
NoHandler ==
  [ status |-> "unconstructed", exc |-> "", attrs |-> {},
    custom_matcher |-> UnsetMatcher, matcher |-> UnsetMatcher,
    entities |-> <<>>, target_lifecycle_node |-> None ]

\* __init__ left by the raise on its first line: nothing was assigned.
RaisedAtKindCheck ==
  [NoHandler EXCEPT !.status = "raised", !.exc = "RuntimeError"]

\* The lambda built and stored even when the caller supplied a matcher.
SelectMatcherIgnoringCustom(a) == DefaultClosure(a)

\* self.__custom_matcher: the caller's matcher, or the lambda when absent.
SelectMatcher(a) ==
  IF a.matcher = NoMatcher THEN DefaultClosure(a) ELSE CustomClosure(a.matcher)

\* __init__ run to its end.
Initialised(a) ==
  [ status |-> "constructed", exc |-> "",
    attrs |-> {"custom_matcher", "matcher", "entities", "target_lifecycle_node"},
    custom_matcher |-> SelectMatcher(a),
    matcher |-> SelectMatcher(a),
    entities |-> a.entities,
    target_lifecycle_node |-> a.target_lifecycle_node ]

\* __init__ without the isinstance test of the target.
NewHandlerUnchecked(a) == Initialised(a)

\* __init__ with the isinstance test moved into the branch that builds the
\* lambda, after the matcher was stored.
NewHandlerCheckedInBranch(a) ==
  IF a.matcher = NoMatcher /\ ~IsLifecycleNodeOrNone(a.target_lifecycle_node)
  THEN [RaisedAtKindCheck EXCEPT !.attrs = {"custom_matcher"}]
  ELSE Initialised(a)

\* OnStateTransition.__init__
NewHandler(a) ==
  IF ~IsLifecycleNodeOrNone(a.target_lifecycle_node)
  THEN RaisedAtKindCheck
  ELSE Initialised(a)

\* ---------------------------------------------------------------- describe
HexDigit(d) ==
  <<"0", "1", "2", "3", "4", "5", "6", "7",
    "8", "9", "a", "b", "c", "d", "e", "f">>[d + 1]

RECURSIVE HexDigits(_)
HexDigits(n) ==
  IF n < 16 THEN HexDigit(n) ELSE HexDigits(n \div 16) \o HexDigit(n % 16)

\* hex(n) for n >= 0
Hex(n) == "0x" \o HexDigits(n)

\* id(o)
Id(o) == o.addr

\* The matcher_description property.
MatcherDescriptionText(obj) ==
  "event == StateTransition and event.action == LifecycleNode("
    \o Hex(Id(obj.target_lifecycle_node)) \o ")"

\* describe(): the label and self.entities.
DescribeResult(obj) ==
  << "OnStateTransition(matcher='" \o MatcherDescriptionText(obj)
       \o "', handler=<actions>)",
     obj.entities >>

\* ----------------------------------------------------------------- actions
NoEvent == [class |-> "none"]

IdleFrame ==
  [ op |-> "idle", phase |-> "idle", handler |-> 0, event |-> NoEvent,
    verdict |-> NoVerdict, text |-> "", ents |-> <<>> ]

NoPass ==
  [ kind |-> "none", event |-> NoEvent,
    verdicts |-> [h \in Handlers |-> NoVerdict],
    texts |-> [h \in Handlers |-> ""],
    ents |-> [h \in Handlers |-> <<>>] ]

Init ==
  /\ handlers = [h \in Handlers |-> NoHandler]
  /\ args = [h \in Handlers |-> NoArgs]
  /\ frames = [t \in Threads |-> IdleFrame]
  /\ pass = NoPass

Constructed(h) == handlers[h].status = "constructed"

\* OnStateTransition(entities=..., target_lifecycle_node=..., ...) in slot h.
Construct(h, a) ==
  /\ handlers[h].status = "unconstructed"
  /\ handlers' = [handlers EXCEPT ![h] = NewHandler(a)]
  /\ args' = [args EXCEPT ![h] = a]
  /\ UNCHANGED <<frames, pass>>

\* Thread t enters handlers[h].matches(e).
CallMatches(t, h, e) ==
  /\ frames[t].phase = "idle"
  /\ Constructed(h)
  /\ frames' = [frames EXCEPT ![t] =
       [IdleFrame EXCEPT !.op = "matches", !.phase = "inflight",
                         !.handler = h, !.event = e]]
  /\ UNCHANGED <<handlers, args, pass>>

\* Thread t's matches() call evaluates the matcher and returns.
ReturnMatches(t) ==
  /\ frames[t].op = "matches"
  /\ frames[t].phase = "inflight"
  /\ frames' = [frames EXCEPT ![t].phase = "done",
                              ![t].verdict =
                                 Matches(handlers[frames[t].handler],
                                         frames[t].event)]
  /\ UNCHANGED <<handlers, args, pass>>

\* describe() that hands its entities over and keeps none.
DescribeConsuming(t, h) ==
  /\ frames[t].phase = "idle"
  /\ Constructed(h)
  /\ frames' = [frames EXCEPT ![t] =
       [IdleFrame EXCEPT !.op = "describe", !.phase = "done", !.handler = h,
                         !.text = DescribeResult(handlers[h])[1],
                         !.ents = DescribeResult(handlers[h])[2]]]
  /\ handlers' = [handlers EXCEPT ![h].entities = <<>>]
  /\ UNCHANGED <<args, pass>>

\* Thread t calls handlers[h].describe().
Describe(t, h) ==
  /\ frames[t].phase = "idle"
  /\ Constructed(h)
  /\ frames' = [frames EXCEPT ![t] =
       [IdleFrame EXCEPT !.op = "describe", !.phase = "done", !.handler = h,
                         !.text = DescribeResult(handlers[h])[1],
                         !.ents = DescribeResult(handlers[h])[2]]]
  /\ UNCHANGED <<handlers, args, pass>>

\* Thread t reads handlers[h].matcher_description.
MatcherDescription(t, h) ==
  /\ frames[t].phase = "idle"
  /\ Constructed(h)
  /\ frames' = [frames EXCEPT ![t] =
       [IdleFrame EXCEPT !.op = "matcher_description", !.phase = "done",
                         !.handler = h,
                         !.text = MatcherDescriptionText(handlers[h])]]
  /\ UNCHANGED <<handlers, args, pass>>

\* Thread t drops the result of its finished call.
Finish(t) ==
  /\ frames[t].phase = "done"
  /\ frames' = [frames EXCEPT ![t] = IdleFrame]
  /\ UNCHANGED <<handlers, args, pass>>

\* Every slot's constructor has run: the launch description is built.
DescriptionBuilt ==
  /\ \A h \in Handlers : handlers[h].status # "unconstructed"
  /\ \E h \in Handlers : Constructed(h)

\* The launch service processes event e: it asks every registered handler
\* whether it matches, one event at a time.
ProcessEvent(e) ==
  /\ DescriptionBuilt
  /\ pass.kind = "none"
  /\ pass' = [NoPass EXCEPT !.kind = "event", !.event = e,
                !.verdicts = [h \in Handlers |->
                   IF Constructed(h) THEN Matches(handlers[h], e)
                   ELSE NoVerdict]]
  /\ UNCHANGED <<handlers, args, frames>>

\* Introspection describes every registered handler.
DescribeAll ==
  /\ DescriptionBuilt
  /\ pass.kind = "none"
  /\ pass' = [NoPass EXCEPT !.kind = "describe",
                !.texts = [h \in Handlers |->
                   IF Constructed(h) THEN DescribeResult(handlers[h])[1]
                   ELSE ""],
                !.ents = [h \in Handlers |->
                   IF Constructed(h) THEN DescribeResult(handlers[h])[2]
                   ELSE <<>>]]
  /\ UNCHANGED <<handlers, args, frames>>

\* The pass is over; the service turns to its next task.
EndPass ==
  /\ pass.kind # "none"
  /\ pass' = NoPass
  /\ UNCHANGED <<handlers, args, frames>>

\* --------------------------------------------------------- specifications
\* One handler, used by NumThreads concurrent callers.
Next ==
  \/ \E a \in CtorArgs : Construct(1, a)
  \/ \E t \in Threads, e \in Events : CallMatches(t, 1, e)
  \/ \E t \in Threads : ReturnMatches(t)
  \/ \E t \in Threads : Describe(t, 1)
  \/ \E t \in Threads : MatcherDescription(t, 1)
  \/ \E t \in Threads : Finish(t)

Spec == Init /\ [][Next]_vars

\* Two handlers, registered with the launch service.
NextPair ==
  \/ \E h \in Handlers, a \in CtorArgs : Construct(h, a)
  \/ \E e \in Events : ProcessEvent(e)
  \/ DescribeAll
  \/ EndPass

SpecPair == Init /\ [][NextPair]_vars

\* ------------------------------------------------------------------ claims
DoneMatches(t) == frames[t].op = "matches" /\ frames[t].phase = "done"

\* The arguments of the handler thread t called, and the event it passed.
ArgsOf(t) == args[frames[t].handler]
EventOf(t) == frames[t].event

TargetAbsent(a) == a.target_lifecycle_node.name = "None"

\* The four criteria of arguments a, read on a state transition event e.
CriteriaAccept(a, e) ==
  /\ (TargetAbsent(a) \/ PyEq(e.action, a.target_lifecycle_node))
  /\ (a.transition = NoneStr \/ e.transition = a.transition)
  /\ (a.start_state = NoneStr \/ e.start_state = a.start_state)
  /\ (a.goal_state = NoneStr \/ e.goal_state = a.goal_state)

\* C1: without a custom matcher, matches(e) is true exactly when e is a
\* StateTransition event and each of the four criteria is absent or equals
\* the event's attribute.
C1_DefaultPredicate ==
  \A t \in Threads :
    (DoneMatches(t) /\ ArgsOf(t).matcher = NoMatcher) =>
      frames[t].verdict =
        Returned(IF IsStateTransition(EventOf(t))
                 THEN CriteriaAccept(ArgsOf(t), EventOf(t))
                 ELSE FALSE)

\* A call accepted with two criteria set and two absent, and a call rejected
\* on the transition alone.
C1_Witness ==
  /\ DoneMatches(1) /\ DoneMatches(2)
  /\ ArgsOf(1).matcher = NoMatcher
  /\ ArgsOf(1).target_lifecycle_node = NodeA
  /\ ArgsOf(1).transition = "activate"
  /\ ArgsOf(1).start_state = NoneStr
  /\ ArgsOf(1).goal_state = NoneStr
  /\ EventOf(1).class = "StateTransition"
  /\ EventOf(1).transition = "activate"
  /\ frames[1].verdict = Returned(TRUE)
  /\ EventOf(2).class = "StateTransition"
  /\ EventOf(2).action = NodeA
  /\ EventOf(2).transition = "configure"
  /\ frames[2].verdict = Returned(FALSE)

\* C2: with a custom matcher, matches(e) is custom_matcher(e), and two
\* handlers built with the same custom matcher agree on every event whatever
\* their four criteria are.
C2_CustomOnly ==
  pass.kind = "event" =>
    /\ \A h \in Handlers :
         (Constructed(h) /\ args[h].matcher # NoMatcher) =>
           pass.verdicts[h] = CustomApply(args[h].matcher, pass.event)
    /\ \A g, h \in Handlers :
         (/\ Constructed(g) /\ Constructed(h)
          /\ args[g].matcher # NoMatcher
          /\ args[g].matcher = args[h].matcher) =>
           pass.verdicts[g] = pass.verdicts[h]

\* Two handlers with the same custom matcher and four different criteria
\* accept an event that the criteria of one of them would reject.
C2_Witness ==
  /\ pass.kind = "event"
  /\ Constructed(1) /\ Constructed(2)
  /\ args[1].matcher = "any_event" /\ args[2].matcher = "any_event"
  /\ args[1].target_lifecycle_node = NodeA
  /\ args[2].target_lifecycle_node = None
  /\ args[1].transition = "activate" /\ args[2].transition = NoneStr
  /\ args[1].start_state = "inactive" /\ args[2].start_state = NoneStr
  /\ args[1].goal_state = "active" /\ args[2].goal_state = NoneStr
  /\ pass.event.class = "StateTransition"
  /\ pass.event.transition = "cleanup"
  /\ pass.verdicts[1] = Returned(TRUE)
  /\ pass.verdicts[2] = Returned(TRUE)

ValidTarget(a) ==
  a.target_lifecycle_node.name \in {"None", "NodeA", "NodeB", "NodeC"}

\* C3: a constructor call whose target is neither None nor a lifecycle node
\* raises and leaves an object with no attribute assigned; any other call
\* completes.
C3_KindCheck ==
  \A h \in Handlers :
    handlers[h].status # "unconstructed" =>
      IF ValidTarget(args[h])
      THEN /\ handlers[h].status = "constructed"
           /\ handlers[h].exc = ""
      ELSE /\ handlers[h].status = "raised"
           /\ handlers[h].exc = "RuntimeError"
           /\ handlers[h].attrs = {}
           /\ handlers[h].matcher.kind = "unset"

\* A constructor call with a string as its target has raised.
C3_Witness ==
  /\ args[1].target_lifecycle_node = NotANode
  /\ args[1].matcher = NoMatcher
  /\ handlers[1].status = "raised"

\* C4 as stated: matches(e) is false for every event that is not a
\* StateTransition, whatever the handler was built with.
C4_NonTransitionRejected ==
  \A t \in Threads :
    (DoneMatches(t) /\ ~IsStateTransition(EventOf(t))) =>
      frames[t].verdict = Returned(FALSE)

\* C4 amended: without a custom matcher, matches(e) is false for every event
\* that is not a StateTransition, whatever the four criteria are.
C4_NonTransitionRejectedByDefault ==
  \A t \in Threads :
    (/\ DoneMatches(t)
     /\ ArgsOf(t).matcher = NoMatcher
     /\ ~IsStateTransition(EventOf(t))) =>
      frames[t].verdict = Returned(FALSE)

\* A ProcessExited event was handed to a handler that constrains nothing.
C4_Witness ==
  \E t \in Threads :
    /\ DoneMatches(t)
    /\ ArgsOf(t).matcher = NoMatcher
    /\ TargetAbsent(ArgsOf(t))
    /\ ArgsOf(t).transition = NoneStr
    /\ ArgsOf(t).start_state = NoneStr
    /\ ArgsOf(t).goal_state = NoneStr
    /\ EventOf(t) = ProcessExited
    /\ frames[t].verdict = Returned(FALSE)

OnlyTargetSet(a) ==
  /\ a.matcher = NoMatcher
  /\ ~TargetAbsent(a)
  /\ a.transition = NoneStr
  /\ a.start_state = NoneStr
  /\ a.goal_state = NoneStr

C6_SameEventSameResult ==
  \A t, u \in Threads :
    (/\ DoneMatches(t) /\ DoneMatches(u)
     /\ frames[t].handler = frames[u].handler
     /\ EventOf(t) = EventOf(u)) =>
      frames[t].verdict = frames[u].verdict

\* Two threads hold a result for the same event, accepted by a handler that
\* rejects other events.
C6_Witness ==
  /\ DoneMatches(1) /\ DoneMatches(2)
  /\ frames[1].handler = frames[2].handler
  /\ EventOf(1) = EventOf(2)
  /\ ArgsOf(1).matcher = NoMatcher
  /\ ArgsOf(1).transition = "activate"
  /\ frames[1].verdict = Returned(TRUE)

\* C7: once a handler is constructed no step changes it or the arguments it
\* was built from, and the event of a call in flight is the event the call
\* returns with.
C7_NoMutation ==
  [][ /\ \A h \in Handlers :
           handlers[h].status # "unconstructed" =>
             /\ handlers'[h] = handlers[h]
             /\ args'[h] = args[h]
      /\ \A t \in Threads :
           frames[t].phase = "inflight" =>
             /\ frames'[t].op = "matches"
             /\ frames'[t].event = frames[t].event
             /\ frames'[t].handler = frames[t].handler ]_vars

\* A handler has answered describe() for one thread and matches() for
\* another, and still holds what its constructor stored.
C7_Witness ==
  /\ Constructed(1)
  /\ frames[1].op = "describe" /\ frames[1].phase = "done"
  /\ DoneMatches(2)
  /\ handlers[1].entities = args[1].entities
  /\ handlers[1].target_lifecycle_node = NodeA

\* What the handler's predicate is made of: the custom callable, or the
\* lambda with the four criteria it captured.
ActiveConstraints(h) == handlers[h].matcher

\* C8: describe() returns the entities bound at construction, and a label
\* that reflects the active predicate and the four criteria, so that handlers
\* with different active constraints get different labels.
C8_LabelTellsConstraints ==
  pass.kind = "describe" =>
    /\ \A h \in Handlers :
         Constructed(h) => pass.ents[h] = args[h].entities
    /\ \A g, h \in Handlers :
         (/\ Constructed(g) /\ Constructed(h)
          /\ ActiveConstraints(g) # ActiveConstraints(h)) =>
           pass.texts[g] # pass.texts[h]

\* C9: a finished matches() call has returned a boolean and a finished
\* describe() or matcher_description a label; the only exception of the
\* component is the constructor's RuntimeError for a bad target.
C9_NoMatchTimeError ==
  /\ \A t \in Threads :
       frames[t].phase = "done" =>
         IF frames[t].op = "matches"
         THEN /\ ~frames[t].verdict.raised
              /\ frames[t].verdict.exc = ""
         ELSE frames[t].text # ""
  /\ \A h \in Handlers :
       handlers[h].exc # "" =>
         /\ handlers[h].exc = "RuntimeError"
         /\ handlers[h].status = "raised"
         /\ ~ValidTarget(args[h])

\* A ProcessExited event and describe() were answered by a handler built
\* with all string criteria set and no target.
C9_Witness ==
  /\ DoneMatches(1)
  /\ EventOf(1) = ProcessExited
  /\ ArgsOf(1).matcher = NoMatcher
  /\ TargetAbsent(ArgsOf(1))
  /\ ArgsOf(1).transition = "activate"
  /\ ArgsOf(1).start_state = "inactive"
  /\ ArgsOf(1).goal_state = "active"
  /\ ~frames[1].verdict.raised
  /\ frames[2].op = "describe" /\ frames[2].phase = "done"

\* C10: a constructor call with a bad target raises also when a custom
\* matcher is supplied, before the matcher, the entities or the target are
\* stored.
C10_CheckBeforeMatcher ==
  \A h \in Handlers :
    (/\ handlers[h].status # "unconstructed"
     /\ args[h].matcher # NoMatcher
     /\ ~ValidTarget(args[h])) =>
      /\ handlers[h].status = "raised"
      /\ handlers[h].exc = "RuntimeError"
      /\ handlers[h].attrs = {}
      /\ handlers[h].custom_matcher = UnsetMatcher
      /\ handlers[h].matcher = UnsetMatcher
      /\ handlers[h].entities = <<>>

\* A constructor call with a string target and a custom matcher has raised.
C10_Witness ==
  /\ args[1].target_lifecycle_node = NotANode
  /\ args[1].matcher = "any_event"
  /\ handlers[1].status = "raised"
  /\ handlers[1].attrs = {}

====
